---- MODULE Spec2Model ----
(***************************************************************************)
(* Model of index.py: the YouTubeDownloader facade over yt_dlp and the     *)
(* interactive menu of main().                                             *)
(*                                                                         *)
(* Text is modelled as a sequence of tokens (a token is a TLA+ string), so *)
(* that str.strip(), f-strings and str(Path) are computed, not assumed.    *)
(* A Python dict of metadata is a set of <<key, value>> pairs.             *)
(* A path is the sequence of its components relative to the working        *)
(* directory.                                                              *)
(***************************************************************************)
EXTENDS Integers, Sequences, FiniteSets, TLC

VARIABLES
    runAs,        \* "script": python index.py; "import": imported by a caller
    installed,    \* whether the yt_dlp package can be imported
    fs,           \* file system: path -> "absent" | "dir" | "file"
    pc,           \* position of the program
    status,       \* exit status of the process, meaningful when pc = "exited"
    uncaught,     \* exception that left the program uncaught, or "none"
    out,          \* standard output: the sequence of lines printed so far
    line,         \* raw line most recently returned by input()
    choice,       \* main(): local variable choice
    url,          \* main(): local variable url
    quality,      \* main(): local variable quality
    format_type,  \* main(): local variable format_type
    downloader,   \* the facade object (its download_path), once constructed
    call,         \* the most recent call of a facade operation and its outcome
    ydl,          \* what the most recent facade operation handed to the engine
    ncalls,       \* number of facade operations called so far
    iter          \* number of passes through the menu loop so far

vars == <<runAs, installed, fs, pc, status, uncaught, out, line, choice, url,
          quality, format_type, downloader, call, ydl, ncalls, iter>>

----------------------------------------------------------------------------
(* Bounds *)

MaxIter == 2
MaxCalls == 2

----------------------------------------------------------------------------
(* Text *)

SP == " "

RECURSIVE lstrip(_)
lstrip(s) == IF s # <<>> /\ Head(s) = SP THEN lstrip(Tail(s)) ELSE s

RECURSIVE rstrip(_)
rstrip(s) ==
    IF s # <<>> /\ s[Len(s)] = SP THEN rstrip(SubSeq(s, 1, Len(s) - 1)) ELSE s

\* the input used as typed, .strip() forgotten
stripNothing(s) == s

\* str.strip(): leading and trailing whitespace removed
strip(s) == rstrip(lstrip(s))

\* Python's `x or d` on strings: the empty string is falsy
OrDefault(s, d) == IF s = <<>> THEN d ELSE s

----------------------------------------------------------------------------
(* Paths and the file system *)

DefaultPath == <<"downloads">>
NestedPath == <<"downloads", "sub">>
AllPaths == {DefaultPath, NestedPath}

Parent(p) == SubSeq(p, 1, Len(p) - 1)

\* the working directory (the empty path) is a directory
Kind(f, p) == IF p = <<>> THEN "dir" ELSE f[p]

RECURSIVE PathStr(_)
\* str(Path): the components joined by "/"
PathStr(p) ==
    IF p = <<>> THEN <<".">>
    ELSE IF Len(p) = 1 THEN p
    ELSE PathStr(Parent(p)) \o <<"/", p[Len(p)]>>

\* Path.__truediv__: the components of the right operand are appended
PathJoin(p, rel) == p \o rel

\* Path.mkdir(exist_ok=True), parents left at its default False
Mkdir(f, p) ==
    CASE Kind(f, p) = "dir" -> [fs |-> f, exc |-> "none"]
      [] Kind(f, p) = "file" -> [fs |-> f, exc |-> "FileExistsError"]
      [] Kind(f, Parent(p)) = "absent" -> [fs |-> f, exc |-> "FileNotFoundError"]
      [] Kind(f, Parent(p)) = "file" -> [fs |-> f, exc |-> "NotADirectoryError"]
      [] OTHER -> [fs |-> [f EXCEPT ![p] = "dir"], exc |-> "none"]

NoDownloader == [exists |-> FALSE, download_path |-> <<>>]

\* YouTubeDownloader.__init__
FacadeInit(f, download_path) ==
    LET m == Mkdir(f, download_path)
    IN  [fs |-> m.fs,
         exc |-> m.exc,
         self |-> IF m.exc = "none"
                  THEN [exists |-> TRUE, download_path |-> download_path]
                  ELSE NoDownloader]

----------------------------------------------------------------------------
(* The engine: yt_dlp.YoutubeDL, an external collaborator.  Its outcome is  *)
(* chosen nondeterministically by the caller of these operators.  Failures  *)
(* are exceptions derived from Exception, raised by the constructor, by     *)
(* the operation, or when the `with` block is left.                         *)

DownloadOutcomes == {"ok", "init_error", "download_error", "exit_error"}

\* a dict is a set of <<key, value>> pairs
Keys(d) == {kv[1] : kv \in d}

\* dict.get(key, default)
Get(d, key, default) ==
    IF key \in Keys(d) THEN (CHOOSE kv \in d : kv[1] = key)[2] ELSE default

FullInfo == {<<"title", "T">>, <<"duration", "120">>, <<"uploader", "U">>,
             <<"view_count", "5">>, <<"upload_date", "20240101">>}

Infos == {FullInfo,
          FullInfo \cup {<<"id", "abc">>},
          {<<"title", "T">>, <<"id", "abc">>},
          {<<"duration", "7">>, <<"view_count", "0">>, <<"uploader", "N/A">>},
          {}}

\* outcomes of YoutubeDL(...).extract_info(url, download=False)
InfoOutcomes ==
    {[kind |-> k, info |-> {}] : k \in {"init_error", "extract_error", "none"}}
    \cup {[kind |-> "dict", info |-> d] : d \in Infos}
    \cup {[kind |-> "exit_error", info |-> FullInfo]}

\* no engine object has been constructed by the most recent operation
NoYdl == [used |-> FALSE]

\* `with yt_dlp.YoutubeDL(ydl_opts) as ydl:` print, ydl.download([url]), print
WithYoutubeDL(ydl_opts, u, eng, startMsg, doneMsg) ==
    CASE eng = "init_error" ->
            [out |-> <<>>, exc |-> eng,
             ydl |-> [used |-> TRUE, opts |-> ydl_opts, methods |-> <<>>]]
      [] eng = "download_error" ->
            [out |-> << startMsg \o u >>, exc |-> eng,
             ydl |-> [used |-> TRUE, opts |-> ydl_opts, methods |-> << <<"download", u>> >>]]
      [] eng = "exit_error" ->
            [out |-> << startMsg \o u, doneMsg >>, exc |-> eng,
             ydl |-> [used |-> TRUE, opts |-> ydl_opts, methods |-> << <<"download", u>> >>]]
      [] OTHER ->
            [out |-> << startMsg \o u, doneMsg >>, exc |-> "none",
             ydl |-> [used |-> TRUE, opts |-> ydl_opts, methods |-> << <<"download", u>> >>]]

\* the diagnostic is printed and the exception raised again
ExceptPrintReraise(body, errMsg) ==
    IF body.exc = "none"
    THEN [out |-> body.out, raised |-> "none", ydl |-> body.ydl]
    ELSE [out |-> body.out \o << errMsg \o <<body.exc>> >>,
          raised |-> body.exc, ydl |-> body.ydl]

\* `except Exception as e: print(f"...: {str(e)}")`
ExceptPrint(body, errMsg) ==
    IF body.exc = "none"
    THEN [out |-> body.out, raised |-> "none", ydl |-> body.ydl]
    ELSE [out |-> body.out \o << errMsg \o <<body.exc>> >>,
          raised |-> "none", ydl |-> body.ydl]

NoneRet == [none |-> TRUE, val |-> {}]

\* line 31: f'{quality}[ext={format_type}]/best[ext={format_type}]/best'
VideoFormat(q, f) ==
    q \o <<"[ext=">> \o f \o <<"]", "/", "best", "[ext=">> \o f
      \o <<"]", "/", "best">>

\* the playlist expression without the same-container fallback tier
PlaylistFormatNoFallback(q, f) ==
    q \o <<"[ext=">> \o f \o <<"]", "/", "best">>

\* line 91: the same f-string, written a second time in download_playlist
PlaylistFormat(q, f) ==
    q \o <<"[ext=">> \o f \o <<"]", "/", "best", "[ext=">> \o f
      \o <<"]", "/", "best">>

\* line 30 and line 53: str(self.download_path / '%(title)s.%(ext)s')
VideoOuttmpl(self) ==
    PathStr(PathJoin(self.download_path, <<"%(title)s.%(ext)s">>))

\* line 90: str(self.download_path / '%(playlist_title)s/%(title)s.%(ext)s')
PlaylistOuttmpl(self) ==
    PathStr(PathJoin(self.download_path,
                     <<"%(playlist_title)s", "%(title)s.%(ext)s">>))

\* YouTubeDownloader.download_video
DownloadVideo(self, u, q, f, eng) ==
    LET ydl_opts == [outtmpl |-> VideoOuttmpl(self),
                     format |-> VideoFormat(q, f)]
        body == WithYoutubeDL(ydl_opts, u, eng, <<"Downloading: ">>,
                              <<"Download completed successfully!">>)
        r == ExceptPrint(body, <<"Error downloading video: ">>)
    IN  [out |-> r.out, raised |-> r.raised, ret |-> NoneRet, ydl |-> r.ydl]

\* YouTubeDownloader.download_audio_only
DownloadAudioOnly(self, u, f, eng) ==
    LET ydl_opts == [format |-> <<"bestaudio", "/", "best">>,
                     outtmpl |-> VideoOuttmpl(self),
                     postprocessors |->
                        << [key |-> "FFmpegExtractAudio",
                            preferredcodec |-> f,
                            preferredquality |-> "192"] >>]
        body == WithYoutubeDL(ydl_opts, u, eng, <<"Downloading audio: ">>,
                              <<"Audio download completed successfully!">>)
        r == ExceptPrint(body, <<"Error downloading audio: ">>)
    IN  [out |-> r.out, raised |-> r.raised, ret |-> NoneRet, ydl |-> r.ydl]

\* YouTubeDownloader.download_playlist
DownloadPlaylist(self, u, q, f, eng) ==
    LET ydl_opts == [outtmpl |-> PlaylistOuttmpl(self),
                     format |-> PlaylistFormat(q, f)]
        body == WithYoutubeDL(ydl_opts, u, eng, <<"Downloading playlist: ">>,
                              <<"Playlist download completed successfully!">>)
        r == ExceptPrint(body, <<"Error downloading playlist: ">>)
    IN  [out |-> r.out, raised |-> r.raised, ret |-> NoneRet, ydl |-> r.ydl]

InfoFields == <<"title", "duration", "uploader", "view_count", "upload_date">>

\* the record built with None as the default of dict.get
InfoRecordNoDefault(info) ==
    {<<InfoFields[i], Get(info, InfoFields[i], "None")>> : i \in 1..Len(InfoFields)}

\* lines 75-81: the record built from info.get(field, 'N/A')
InfoRecord(info) ==
    {<<InfoFields[i], Get(info, InfoFields[i], "N/A")>> : i \in 1..Len(InfoFields)}

\* the try block with a missing metadata object read as an empty dict
TryExtractInfoNoneOk(res) ==
    CASE res.kind = "init_error" -> "init_error"
      [] res.kind = "extract_error" -> "extract_error"
      [] res.kind = "exit_error" -> "exit_error"
      [] OTHER -> "none"

\* lines 72-81: the exception the try block of get_video_info ends with,
\* "none" when it reaches its return
TryExtractInfo(res) ==
    CASE res.kind = "init_error" -> "init_error"
      [] res.kind = "extract_error" -> "extract_error"
      \* info is None: info.get raises AttributeError
      [] res.kind = "none" -> "AttributeError"
      \* the return leaves the with block, whose exit raises
      [] res.kind = "exit_error" -> "exit_error"
      [] OTHER -> "none"

\* YouTubeDownloader.get_video_info
GetVideoInfo(self, u, res) ==
    LET ydl_opts == [quiet |-> TRUE]
        called == [used |-> TRUE, opts |-> ydl_opts,
                   methods |-> << <<"extract_info", u>> >>]
        exc == TryExtractInfo(res)
    IN  IF exc = "none"
        THEN [out |-> <<>>, raised |-> "none",
              ret |-> [none |-> FALSE, val |-> InfoRecord(res.info)],
              ydl |-> called]
        ELSE [out |-> << <<"Error getting video info: ", exc>> >>,
              raised |-> "none", ret |-> NoneRet,
              ydl |-> IF res.kind = "init_error"
                      THEN [used |-> TRUE, opts |-> ydl_opts, methods |-> <<>>]
                      ELSE called]

----------------------------------------------------------------------------
(* Inputs *)

EOF == [eof |-> TRUE, text |-> <<>>]
Typed(t) == [eof |-> FALSE, text |-> t]

TheUrl == <<"https://example.test/abc">>

ChoiceInputs == {<<"1">>, <<"2">>, <<"3">>, <<"4">>, <<"5">>, <<"6">>, <<"7">>,
                 <<>>, <<SP, "6">>, <<"3", SP>>, <<"1", "2">>}
UrlInputs == {<<>>, <<SP>>, TheUrl, <<SP>> \o TheUrl \o <<SP>>}
QualityInputs == {<<>>, <<"720p">>, <<"worst", SP>>}
FormatInputs == {<<>>, <<"webm">>, <<SP>>}

\* arguments a caller of the class passes directly
Urls == {TheUrl}
Qualities == {<<"best">>, <<"720p">>}
Formats == {<<"mp4">>, <<"webm">>}
AudioFormats == {<<"mp3">>, <<"wav">>}

\* what input() can return: a typed line, or end of input (EOFError)
Lines(S) == {Typed(t) : t \in S} \cup {EOF}

FsStates ==
    {f \in [AllPaths -> {"absent", "dir", "file"}] :
        f[NestedPath] # "absent" => f[DefaultPath] = "dir"}

----------------------------------------------------------------------------
(* The program *)

NoEngine == [kind |-> "unused", info |-> {}]
Outcome(eng) == [kind |-> eng, info |-> {}]

NoCall == [op |-> "none", args |-> <<>>, engine |-> NoEngine, raised |-> "none",
           ret |-> NoneRet, printed |-> <<>>]

Init ==
    /\ runAs \in {"script", "import"}
    /\ installed \in BOOLEAN
    /\ fs \in FsStates
    \* main() only ever names ./downloads itself
    /\ runAs = "script" => fs[NestedPath] = "absent"
    /\ pc = "import"
    /\ status = 0
    /\ uncaught = "none"
    /\ out = <<>>
    /\ line = Typed(<<>>)
    /\ choice = <<>>
    /\ url = <<>>
    /\ quality = <<>>
    /\ format_type = <<>>
    /\ downloader = NoDownloader
    /\ call = NoCall
    /\ ydl = NoYdl
    /\ ncalls = 0
    /\ iter = 0

\* an exception nobody catches: traceback, the interpreter exits with status 1
Crash(exc) ==
    /\ pc' = "exited"
    /\ status' = 1
    /\ uncaught' = exc

\* line 7: `import yt_dlp` at the top of the module
ImportModule ==
    /\ pc = "import"
    /\ IF installed
       THEN /\ pc' = IF runAs = "script" THEN "guard" ELSE "imported"
            /\ UNCHANGED <<status, uncaught>>
       ELSE IF runAs = "script"
            THEN Crash("ModuleNotFoundError")
            ELSE /\ pc' = "raised"
                 /\ uncaught' = "ModuleNotFoundError"
                 /\ UNCHANGED status
    /\ UNCHANGED <<runAs, installed, fs, out, line, choice, url, quality,
                   format_type, downloader, call, ydl, ncalls, iter>>

\* lines 179-189: the __main__ guard
MainGuard ==
    /\ pc = "guard"
    /\ IF installed
       THEN /\ pc' = "main"
            /\ UNCHANGED <<status, out>>
       ELSE /\ out' = out \o << <<"yt-dlp is not installed. Please install it using:">>,
                                <<"pip install yt-dlp">> >>
            /\ pc' = "exited"
            /\ status' = 1
    /\ UNCHANGED <<runAs, installed, fs, uncaught, line, choice, url, quality,
                   format_type, downloader, call, ydl, ncalls, iter>>

\* line 104: downloader = YouTubeDownloader()
MainConstruct ==
    /\ pc = "main"
    /\ LET r == FacadeInit(fs, DefaultPath)
       IN  /\ fs' = r.fs
           /\ downloader' = r.self
           /\ call' = [op |-> "__init__", args |-> <<DefaultPath>>,
                       engine |-> NoEngine, raised |-> r.exc,
                       ret |-> NoneRet, printed |-> <<>>]
           /\ IF r.exc = "none"
              THEN pc' = "menu" /\ UNCHANGED <<status, uncaught>>
              ELSE Crash(r.exc)
    /\ UNCHANGED <<runAs, installed, out, line, choice, url, quality,
                   format_type, ydl, ncalls, iter>>

Banner == [i \in 1..50 |-> "="]

\* lines 107-115
MenuLines ==
    << <<>>, Banner, <<"YouTube Video Downloader">>, Banner,
       <<"1. Download video (MP4)">>, <<"2. Download audio only (MP3)">>,
       <<"3. Get video information">>, <<"4. Download playlist">>,
       <<"5. Custom download options">>, <<"6. Exit">> >>

ChoicePrompt == << <<>>, <<"Select an option (1-6): ">> >>
UrlPrompt(c) ==
    IF c = <<"4">> THEN << <<"Enter YouTube playlist URL: ">> >>
    ELSE << <<"Enter YouTube video URL: ">> >>
QualityPrompt(c) ==
    IF c = <<"5">>
    THEN << <<"Enter quality (best/worst/720p/etc.) [default: best]: ">> >>
    ELSE << <<"Enter quality (best/worst/720p/480p/360p) [default: best]: ">> >>
FormatPrompt == << <<"Enter format (mp4/webm/mkv) [default: mp4]: ">> >>

\* the selection '7' taken for an action that asks for a URL
UrlChoicesWide == {<<"1">>, <<"2">>, <<"3">>, <<"4">>, <<"5">>, <<"7">>}

UrlChoices == {<<"1">>, <<"2">>, <<"3">>, <<"4">>, <<"5">>}
\* the Exit branch compared with the wrong selection
ExitChoiceWrong == <<"0">>

\* line 155
ExitChoice == <<"6">>

\* the facade operation `op` is called with `args` (defaults filled in) while
\* the engine behaves as `eng`, and comes back with r; `before` is what the
\* caller printed ahead of the call and `after` what it prints on return
Invoke(op, args, eng, r, before, after) ==
    /\ out' = out \o before \o r.out \o after
    /\ call' = [op |-> op, args |-> args, engine |-> eng, raised |-> r.raised,
                ret |-> r.ret, printed |-> r.out]
    /\ ydl' = r.ydl
    /\ ncalls' = ncalls + 1

\* lines 106-117 and 155-160: one pass through the head of the loop
Menu ==
    /\ pc = "menu"
    /\ iter < MaxIter
    /\ iter' = iter + 1
    /\ \E l \in Lines(ChoiceInputs) :
        /\ line' = l
        /\ IF l.eof
           THEN /\ out' = out \o MenuLines \o ChoicePrompt
                /\ Crash("EOFError")
                /\ UNCHANGED choice
           ELSE /\ choice' = strip(l.text)
                /\ UNCHANGED uncaught
                /\ CASE choice' \in UrlChoices ->
                          /\ out' = out \o MenuLines \o ChoicePrompt
                          /\ pc' = "url"
                          /\ UNCHANGED status
                     [] choice' = ExitChoice ->
                          /\ out' = out \o MenuLines \o ChoicePrompt
                                        \o << <<"Goodbye!">> >>
                          /\ pc' = "exited"
                          /\ status' = 0
                     [] OTHER ->
                          /\ out' = out \o MenuLines \o ChoicePrompt
                                        \o << <<"Invalid choice. Please try again.">> >>
                          /\ pc' = "menu"
                          /\ UNCHANGED status
    /\ UNCHANGED <<runAs, installed, fs, url, quality, format_type, downloader,
                   call, ydl, ncalls>>

\* lines 134-140: what main prints for the result of get_video_info
InfoLines(ret) ==
    IF ret.none THEN <<>>
    ELSE << <<>>, <<"Video Information:">>,
            <<"Title: ", Get(ret.val, "title", "KeyError")>>,
            <<"Duration: ", Get(ret.val, "duration", "KeyError"), " seconds">>,
            <<"Uploader: ", Get(ret.val, "uploader", "KeyError")>>,
            <<"Views: ", Get(ret.val, "view_count", "KeyError")>>,
            <<"Upload Date: ", Get(ret.val, "upload_date", "KeyError")>> >>

\* lines 120-121, 126-128, 131-140, 143-144, 149-150: the URL is read
ReadUrl ==
    /\ pc = "url"
    /\ \E l \in Lines(UrlInputs) :
        /\ line' = l
        /\ IF l.eof
           THEN /\ out' = out \o UrlPrompt(choice)
                /\ Crash("EOFError")
                /\ UNCHANGED <<url, call, ydl, ncalls>>
           ELSE /\ url' = strip(l.text)
                /\ UNCHANGED <<status, uncaught>>
                /\ CASE url' = <<>> ->
                          /\ out' = out \o UrlPrompt(choice)
                          /\ pc' = "menu"
                          /\ UNCHANGED <<call, ydl, ncalls>>
                     [] url' # <<>> /\ choice = <<"2">> ->
                          /\ \E eng \in DownloadOutcomes :
                                Invoke("download_audio_only", <<url', <<"mp3">>>>,
                                       Outcome(eng),
                                       DownloadAudioOnly(downloader, url', <<"mp3">>, eng),
                                       UrlPrompt(choice), <<>>)
                          /\ pc' = "menu"
                     [] url' # <<>> /\ choice = <<"3">> ->
                          /\ \E res \in InfoOutcomes :
                                LET r == GetVideoInfo(downloader, url', res)
                                IN  Invoke("get_video_info", <<url'>>, res, r,
                                           UrlPrompt(choice), InfoLines(r.ret))
                          /\ pc' = "menu"
                     [] OTHER ->
                          /\ out' = out \o UrlPrompt(choice)
                          /\ pc' = "quality"
                          /\ UNCHANGED <<call, ydl, ncalls>>
    /\ UNCHANGED <<runAs, installed, fs, choice, quality, format_type,
                   downloader, iter>>

\* lines 122-123, 145-146, 151: the quality is read
ReadQuality ==
    /\ pc = "quality"
    /\ \E l \in Lines(QualityInputs) :
        /\ line' = l
        /\ IF l.eof
           THEN /\ out' = out \o QualityPrompt(choice)
                /\ Crash("EOFError")
                /\ UNCHANGED <<quality, call, ydl, ncalls>>
           ELSE /\ quality' = OrDefault(strip(l.text), <<"best">>)
                /\ UNCHANGED <<status, uncaught>>
                /\ CASE choice = <<"1">> ->
                          /\ \E eng \in DownloadOutcomes :
                                Invoke("download_video", <<url, quality', <<"mp4">>>>,
                                       Outcome(eng),
                                       DownloadVideo(downloader, url, quality', <<"mp4">>, eng),
                                       QualityPrompt(choice), <<>>)
                          /\ pc' = "menu"
                     [] choice = <<"4">> ->
                          /\ \E eng \in DownloadOutcomes :
                                Invoke("download_playlist", <<url, quality', <<"mp4">>>>,
                                       Outcome(eng),
                                       DownloadPlaylist(downloader, url, quality', <<"mp4">>, eng),
                                       QualityPrompt(choice), <<>>)
                          /\ pc' = "menu"
                     [] OTHER ->
                          /\ out' = out \o QualityPrompt(choice)
                          /\ pc' = "format"
                          /\ UNCHANGED <<call, ydl, ncalls>>
    /\ UNCHANGED <<runAs, installed, fs, choice, url, format_type, downloader, iter>>

\* lines 152-153: the format is read and download_video is called
ReadFormat ==
    /\ pc = "format"
    /\ \E l \in Lines(FormatInputs) :
        /\ line' = l
        /\ IF l.eof
           THEN /\ out' = out \o FormatPrompt
                /\ Crash("EOFError")
                /\ UNCHANGED <<format_type, call, ydl, ncalls>>
           ELSE /\ format_type' = OrDefault(strip(l.text), <<"mp4">>)
                /\ UNCHANGED <<status, uncaught>>
                /\ \E eng \in DownloadOutcomes :
                      Invoke("download_video", <<url, quality, format_type'>>,
                             Outcome(eng),
                             DownloadVideo(downloader, url, quality, format_type', eng),
                             FormatPrompt, <<>>)
                /\ pc' = "menu"
    /\ UNCHANGED <<runAs, installed, fs, choice, url, quality, downloader, iter>>

----------------------------------------------------------------------------
(* A caller that imports the module and uses the class, as                  *)
(* quick_download_example does                                             *)

ApiUnchanged ==
    UNCHANGED <<runAs, installed, status, line, choice, url, quality,
                format_type, iter>>

\* YouTubeDownloader(download_path)
ApiConstruct ==
    /\ pc = "imported"
    /\ \E p \in AllPaths :
        LET r == FacadeInit(fs, p)
        IN  /\ fs' = r.fs
            /\ downloader' = r.self
            /\ call' = [op |-> "__init__", args |-> <<p>>,
                        engine |-> NoEngine, raised |-> r.exc,
                        ret |-> NoneRet, printed |-> <<>>]
            /\ uncaught' = r.exc
            /\ pc' = IF r.exc = "none" THEN "ready" ELSE "raised"
    /\ UNCHANGED <<out, ydl, ncalls>>
    /\ ApiUnchanged

ApiCall(op, args, eng, r) ==
    /\ pc = "ready"
    /\ ncalls < MaxCalls
    /\ Invoke(op, args, eng, r, <<>>, <<>>)
    /\ uncaught' = r.raised
    /\ pc' = IF r.raised = "none" THEN "ready" ELSE "raised"
    /\ UNCHANGED <<fs, downloader>>
    /\ ApiUnchanged

ApiDownloadVideo ==
    \E u \in Urls, q \in Qualities, f \in Formats, eng \in DownloadOutcomes :
        ApiCall("download_video", <<u, q, f>>, Outcome(eng),
                DownloadVideo(downloader, u, q, f, eng))

ApiDownloadAudioOnly ==
    \E u \in Urls, f \in AudioFormats, eng \in DownloadOutcomes :
        ApiCall("download_audio_only", <<u, f>>, Outcome(eng),
                DownloadAudioOnly(downloader, u, f, eng))

ApiGetVideoInfo ==
    \E u \in Urls, res \in InfoOutcomes :
        ApiCall("get_video_info", <<u>>, res, GetVideoInfo(downloader, u, res))

ApiDownloadPlaylist ==
    \E u \in Urls, q \in Qualities, f \in Formats, eng \in DownloadOutcomes :
        ApiCall("download_playlist", <<u, q, f>>, Outcome(eng),
                DownloadPlaylist(downloader, u, q, f, eng))

Next ==
    \/ ImportModule
    \/ MainGuard
    \/ MainConstruct
    \/ Menu
    \/ ReadUrl
    \/ ReadQuality
    \/ ReadFormat
    \/ ApiConstruct
    \/ ApiDownloadVideo
    \/ ApiDownloadAudioOnly
    \/ ApiGetVideoInfo
    \/ ApiDownloadPlaylist

Spec == Init /\ [][Next]_vars

----------------------------------------------------------------------------
(* Properties *)

Range(q) == {q[i] : i \in 1..Len(q)}

DownloadOps == {"download_video", "download_audio_only", "download_playlist"}

ErrorPrefix(op) ==
    CASE op = "download_video" -> "Error downloading video: "
      [] op = "download_audio_only" -> "Error downloading audio: "
      [] op = "download_playlist" -> "Error downloading playlist: "
      [] OTHER -> "Error getting video info: "

SuccessLine(op) ==
    CASE op = "download_video" -> <<"Download completed successfully!">>
      [] op = "download_audio_only" -> <<"Audio download completed successfully!">>
      [] OTHER -> <<"Playlist download completed successfully!">>

\* the text is empty or whitespace only
IsBlank(t) == \A i \in 1..Len(t) : t[i] = SP

\* the text is the single token c between any amount of whitespace
IsToken(t, c) ==
    \E k \in 1..Len(t) : t[k] = c /\ \A i \in 1..Len(t) : i # k => t[i] = SP

\* C1: download_video, download_audio_only and download_playlist never raise
\* to their caller whatever the engine does; when the engine fails at
\* construction or during the download the operation prints its diagnostic
\* line ("Error downloading video: ..." for download_video) and does not
\* print its success line.
C1_DownloadsNeverRaise ==
    call.op \in DownloadOps =>
        /\ call.raised = "none"
        /\ call.ret = NoneRet
        /\ call.engine.kind \in {"init_error", "download_error"} =>
              /\ \E l \in Range(call.printed) :
                    l # <<>> /\ Head(l) = ErrorPrefix(call.op)
              /\ SuccessLine(call.op) \notin Range(call.printed)
              /\ Range(call.printed) \subseteq Range(out)

C1_Witness ==
    /\ call.op = "download_video"
    /\ call.args = <<TheUrl, <<"720p">>, <<"mp4">>>>
    /\ call.engine.kind = "download_error"
    /\ downloader.download_path = DefaultPath
    /\ <<"Error downloading video: ", "download_error">> \in Range(out)

\* C2: get_video_info on a failing lookup (the engine raises, or returns no
\* metadata object) returns None, does not raise, and returns no record.
C2_InfoFailureIsNone ==
    (call.op = "get_video_info"
        /\ call.engine.kind \in {"init_error", "extract_error", "none", "exit_error"}) =>
        /\ call.raised = "none"
        /\ call.ret = NoneRet

C2_Witness ==
    /\ call.op = "get_video_info"
    /\ call.engine.kind = "none"
    /\ call.ret.none
    /\ pc \in {"menu", "ready"}

\* C3: for every menu action that asks for a URL, an empty or whitespace-only
\* URL makes the loop go back to the menu: no facade operation is called, no
\* further prompt is issued and no error is printed.
C3_EmptyUrlSkips ==
    [][ (pc = "url" /\ ~line'.eof /\ IsBlank(line'.text)) =>
            /\ pc' = "menu"
            /\ ncalls' = ncalls
            /\ call' = call
            /\ ydl' = ydl
            /\ out' = out \o UrlPrompt(choice)
            /\ uncaught' = "none"
            /\ fs' = fs ]_vars

C3_Witness ==
    /\ pc = "menu"
    /\ choice \in UrlChoices
    /\ line = Typed(<<SP>>)
    /\ url = <<>>
    /\ ncalls = 0
    /\ iter = 1

\* C4: selecting Exit ('6') at the menu prompt ends the loop: Goodbye is
\* printed, main returns with status 0, no facade operation is called and
\* nothing happens after that, whatever came before.
C4_ExitTerminates ==
    [][ /\ pc # "exited"
        /\ (pc = "menu" /\ ~line'.eof /\ IsToken(line'.text, "6")) =>
              /\ pc' = "exited"
              /\ status' = 0
              /\ uncaught' = "none"
              /\ ncalls' = ncalls
              /\ call' = call
              /\ ydl' = ydl
              /\ out' = out \o MenuLines \o ChoicePrompt \o << <<"Goodbye!">> >> ]_vars

C4_Witness ==
    /\ pc = "exited"
    /\ status = 0
    /\ line = Typed(<<SP, "6">>)
    /\ iter = 2
    /\ ncalls = 1
    /\ out[Len(out)] = <<"Goodbye!">>

\* no component of the path p is an existing regular file
NoFileOnPath(f, p) == \A n \in 1..Len(p) : Kind(f, SubSeq(p, 1, n)) # "file"

\* C5: constructing the facade creates the destination directory when it
\* does not exist, also when its parent does not exist; when it exists the
\* construction changes nothing and does not raise; after a successful
\* construction the destination directory exists.
C5_ConstructCreatesDirectory ==
    [][ (pc \in {"main", "imported"} /\ call'.op = "__init__") =>
            LET p == call'.args[1]
            IN  /\ (Kind(fs, p) = "absent" /\ NoFileOnPath(fs, p)) =>
                      call'.raised = "none" /\ Kind(fs', p) = "dir"
                /\ Kind(fs, p) = "dir" =>
                      call'.raised = "none" /\ fs' = fs
                /\ call'.raised = "none" =>
                      downloader'.exists /\ Kind(fs', downloader'.download_path) = "dir"
      ]_vars

\* C6: when yt_dlp is missing at startup the program prints the install
\* instructions ("pip install yt-dlp") and ends with a non-zero status
\* without entering the menu loop.
C6_MissingDependencyReported ==
    (runAs = "script" /\ ~installed /\ pc # "import") =>
        /\ pc = "exited"
        /\ status # 0
        /\ <<"pip install yt-dlp">> \in Range(out)
        /\ iter = 0

\* C7: the process ends with a non-zero status only if yt_dlp is missing at
\* startup.
C7_NonZeroOnlyIfMissing ==
    (runAs = "script" /\ pc = "exited" /\ status # 0) => ~installed

\* C8: with a working engine get_video_info returns a record of exactly the
\* five fields title, duration, uploader, view_count, upload_date; a field
\* the engine reports keeps the engine's value, a field it does not report
\* is "N/A", and any other engine field is dropped.
C8_InfoRecordExact ==
    (call.op = "get_video_info" /\ call.engine.kind = "dict") =>
        /\ call.raised = "none"
        /\ ~call.ret.none
        /\ Keys(call.ret.val) = Range(InfoFields)
        /\ Cardinality(call.ret.val) = 5
        /\ \A k \in Range(InfoFields) :
              IF \E kv \in call.engine.info : kv[1] = k
              THEN \E kv \in call.engine.info : kv[1] = k /\ kv \in call.ret.val
              ELSE <<k, "N/A">> \in call.ret.val
        /\ call.engine.info = FullInfo => call.ret.val = FullInfo

C8_Witness ==
    /\ call.op = "get_video_info"
    /\ call.engine.kind = "dict"
    /\ call.engine.info = {<<"title", "T">>, <<"id", "abc">>}
    /\ call.ret.val = {<<"title", "T">>, <<"duration", "N/A">>,
                       <<"uploader", "N/A">>, <<"view_count", "N/A">>,
                       <<"upload_date", "N/A">>}

ValidChoices == {"1", "2", "3", "4", "5", "6"}

\* C9: a selection other than '1'..'6' prints the error message, calls no
\* facade operation, reads no other input, and leaves the loop at the menu;
\* the loop does not end on it.
C9_InvalidChoiceReprompts ==
    [][ (pc = "menu" /\ ~line'.eof
            /\ \A c \in ValidChoices : ~IsToken(line'.text, c)) =>
            /\ pc' = "menu"
            /\ out' = out \o MenuLines \o ChoicePrompt
                          \o << <<"Invalid choice. Please try again.">> >>
            /\ ncalls' = ncalls
            /\ call' = call
            /\ ydl' = ydl
            /\ uncaught' = "none"
            /\ status' = status ]_vars

C9_Witness ==
    /\ pc = "menu"
    /\ iter = 1
    /\ line = Typed(<<"1", "2">>)
    /\ out[Len(out)] = <<"Invalid choice. Please try again.">>

RECURSIVE SplitOn(_, _)
\* the pieces of s between the occurrences of the token sep
SplitOn(s, sep) ==
    IF \A i \in 1..Len(s) : s[i] # sep THEN <<s>>
    ELSE LET k == CHOOSE i \in 1..Len(s) :
                    s[i] = sep /\ \A j \in 1..(i - 1) : s[j] # sep
         IN  <<SubSeq(s, 1, k - 1)>> \o SplitOn(SubSeq(s, k + 1, Len(s)), sep)

\* a selector restricted to the container f
Restricted(sel, f) == sel \o <<"[ext=">> \o f \o <<"]">>

\* C10: download_video and download_playlist hand the engine the same
\* format expression for the same quality q and container f: q restricted to
\* f, then best restricted to f, then best; only the output template
\* differs, the playlist's nesting the items under a per-playlist-title
\* subdirectory of the destination directory.
C10_SameFormatExpression ==
    (call.op \in {"download_video", "download_playlist"}) =>
        LET q == call.args[2]
            f == call.args[3]
            dest == PathStr(downloader.download_path)
        IN  /\ ydl.used
            /\ DOMAIN ydl.opts = {"outtmpl", "format"}
            /\ SplitOn(ydl.opts.format, "/") =
                  <<Restricted(q, f), Restricted(<<"best">>, f), <<"best">>>>
            /\ ydl.opts.format = VideoFormat(q, f)
            /\ ydl.opts.outtmpl =
                  IF call.op = "download_video"
                  THEN dest \o <<"/", "%(title)s.%(ext)s">>
                  ELSE dest \o <<"/", "%(playlist_title)s", "/", "%(title)s.%(ext)s">>

C10_Witness ==
    /\ call.op = "download_playlist"
    /\ call.args = <<TheUrl, <<"720p">>, <<"webm">>>>
    /\ downloader.download_path = NestedPath
    /\ ydl.opts.outtmpl = <<"downloads", "/", "sub", "/", "%(playlist_title)s",
                            "/", "%(title)s.%(ext)s">>

====
